---- MODULE Spec2Model ----
(***************************************************************************)
(* Model of the CLAP plugin-side adapter, examples/plugins/plugin.cc.      *)
(*                                                                         *)
(* One instance of clap::Plugin driven by a host that may call any entry   *)
(* point whose function-pointer slot is assigned, in any order, on either  *)
(* thread class.  Every action is one ABI entry point, run to its return   *)
(* (or to std::terminate / a failed assert).  The variable `last` records  *)
(* what the most recent call did: its return value, the number of          *)
(* misbehaviour diagnostics it reported and the author hooks it invoked,   *)
(* each with the lifecycle fields as they were when the hook was entered.  *)
(***************************************************************************)
EXTENDS Integers, Sequences, FiniteSets, TLC

\* ------------------------------------------------------------------ bounds
\* sample rates offered by the host range over -1 .. MaxRate
MaxRate == 2
\* the author's parameter table has at most MaxParams entries
MaxParams == 2
\* the host calls init at most MaxInit times
MaxInit == 2
\* counts returned by the author's port/config count hooks: 0 .. MaxPorts
MaxPorts == 1
\* track-info snapshots delivered by the host: 1 .. MaxTrack
MaxTrack == 1

Rates == -1 .. MaxRate
\* the parameter ids the author's table may report
ParamIds == {0, 1}
\* ids the host may pass: every reported id and one that is never reported
HostParamIds == ParamIds \cup {2}
Threads == {"main", "audio"}

\* paramsInfo(i) returning false is an entry NoInfo of the table
NoInfo == -1
\* the table of the lifecycle specification: the first paramsInfo fails and
\* the second reports id 0 (SpecParams ranges over every table)
LifeTables == {<<NoInfo, 0>>}
ParamTables == UNION {[1 .. n -> ParamIds \cup {NoInfo}] : n \in 0 .. MaxParams}

\* the host extension ids, in the order initInterfaces() queries them
ExtOrder ==
  << "clap/log", "clap/thread-check", "clap/thread-pool", "clap/audio-ports",
     "clap/event-loop", "clap/event-filter", "clap/file-reference",
     "clap/latency", "clap/gui", "clap/params", "clap/track-info",
     "clap/state", "clap/note-name" >>
ExtIds == {ExtOrder[i] : i \in 1 .. Len(ExtOrder)}

\* The hosts considered.  extension: the lookup function pointer is set;
\* provides: the ids it answers with a table; is_main_thread,
\* is_audio_thread, log, get: the function pointers of those tables.
Hosts ==
  { [extension |-> FALSE, provides |-> {}, is_main_thread |-> FALSE,
     is_audio_thread |-> FALSE, log |-> FALSE, get |-> FALSE],
    [extension |-> TRUE, provides |-> {}, is_main_thread |-> FALSE,
     is_audio_thread |-> FALSE, log |-> FALSE, get |-> FALSE],
    [extension |-> TRUE, provides |-> ExtIds, is_main_thread |-> TRUE,
     is_audio_thread |-> TRUE, log |-> TRUE, get |-> TRUE],
    [extension |-> TRUE, provides |-> {"clap/thread-check", "clap/track-info"},
     is_main_thread |-> TRUE, is_audio_thread |-> FALSE, log |-> FALSE,
     get |-> FALSE] }

ProcessStatuses == {"CLAP_PROCESS_ERROR", "CLAP_PROCESS_CONTINUE"}

VARIABLES
  host_,          \* the borrowed clap_host
  ndebug,         \* the build: TRUE when assert() is compiled out
  paramTable,     \* the author's parameter table (paramsCount / paramsInfo)
  plugin_,        \* the clap_plugin function-pointer slots (TRUE: assigned)
  caps,           \* hostLog_ .. hostNoteName_ (TRUE: non-null)
  extQueries,     \* per id, how often host_->extension was called
  nInit,          \* number of clapInit calls so far
  isActive_,
  isProcessing_,
  sampleRate_,
  hasTrackInfo_,
  trackInfo_,     \* 0: never written
  proc,           \* "running", "terminated", "aborted" or "destroyed"
  last,           \* the most recent call
  scen,           \* history: how many calls of Scenario the host has made
                  \* so far, in order and from the first call on; -1 once
                  \* it has left the scenario
  cmpA, cmpB      \* the two descriptors handed to compareAudioPortsInfo

vars == << host_, ndebug, paramTable, plugin_, caps, extQueries, nInit,
           isActive_, isProcessing_, sampleRate_, hasTrackInfo_, trackInfo_,
           proc, last, scen, cmpA, cmpB >>

Slots == {"init", "destroy", "extension", "process", "activate", "deactivate",
          "start_processing", "stop_processing"}

Bool2Str(b) == IF b THEN "true" ELSE "false"

\* ---------------------------------------------------------------- context
\* The lifecycle fields as a record.
Life == [isActive |-> isActive_, isProcessing |-> isProcessing_,
         sampleRate |-> sampleRate_]

\* What the host passes as `const clap_plugin *plugin`: the instance's
\* clap_plugin, a null pointer, or a clap_plugin whose plugin_data is null.
PluginPointers == {"instance", "null", "null_plugin_data"}

\* The running call: the pointer it was given, the adapter's fields, and
\* what the call has done so far.
Begin(plugin) ==
  [ptr |-> plugin,
   isActive |-> isActive_, isProcessing |-> isProcessing_,
   sampleRate |-> sampleRate_, hasTrackInfo |-> hasTrackInfo_,
   trackInfo |-> trackInfo_, plugin |-> plugin_, caps |-> caps,
   extQueries |-> extQueries,
   diag |-> 0, hooks |-> << >>, ret |-> "void", proc |-> "running"]

\* An author hook is entered: `name` with argument `arg`, returning `res`.
Invoke(c, name, arg, res) ==
  [c EXCEPT !.hooks = Append(@, [name |-> name, arg |-> arg, res |-> res,
                                 isActive |-> c.isActive,
                                 isProcessing |-> c.isProcessing,
                                 sampleRate |-> c.sampleRate,
                                 hasTrackInfo |-> c.hasTrackInfo,
                                 trackInfo |-> c.trackInfo])]

Return(c, r) == [c EXCEPT !.ret = r]

\* assert(cond): aborts the process unless compiled out.
AssertOk(cond) == ndebug \/ cond
Abort(c) == [c EXCEPT !.proc = "aborted", !.ret = "aborted"]

\* ---------------------------------------------------------------- logging
\* log(): the host's log function when usable, std::clog otherwise; either
\* way one misbehaviour diagnostic is reported.
hostMisbehaving(c) == [c EXCEPT !.diag = @ + 1]

\* --------------------------------------------------------- thread checking
MainThreadOk(c, thr) ==
  \/ ~c.caps["clap/thread-check"]
  \/ ~host_.is_main_thread
  \/ thr = "main"

AudioThreadOk(c, thr) ==
  \/ ~c.caps["clap/thread-check"]
  \/ ~host_.is_audio_thread
  \/ thr = "audio"

Terminate(c) == [c EXCEPT !.proc = "terminated", !.ret = "terminated"]

\* Plugin::from: a null clap_plugin or a null plugin_data ends the process
\* (the message goes to std::cerr, not to the host's log).
from(c) ==
  IF c.ptr = "null" THEN Terminate(c)
  ELSE IF c.ptr = "null_plugin_data" THEN Terminate(c)
  ELSE c

checkMainThread(c, thr) ==
  IF MainThreadOk(c, thr) THEN c ELSE Terminate(c)

ensureMainThread(c, thr) ==
  IF MainThreadOk(c, thr) THEN c ELSE Terminate(hostMisbehaving(c))

\* ensureAudioThread reporting the wrong thread and going on.
ensureAudioThread_ReportOnly(c, thr) ==
  IF AudioThreadOk(c, thr) THEN c ELSE hostMisbehaving(c)

ensureAudioThread(c, thr) ==
  IF AudioThreadOk(c, thr) THEN c ELSE Terminate(hostMisbehaving(c))

\* ---------------------------------------------------------------- lifecycle
\* clapDeactivate that also clears the processing flag.
clapDeactivateBody_ClearsProcessing(c, thr) ==
  IF from(c).proc # "running" THEN from(c) ELSE
  LET c1 == ensureMainThread(c, thr) IN
  IF c1.proc # "running" THEN c1
  ELSE IF ~c1.isActive
       THEN hostMisbehaving(c1)
       ELSE Invoke([c1 EXCEPT !.isProcessing = FALSE], "deactivate", 0, "void")

\* clapDeactivate with its test inverted (if (self.isActive_)).
clapDeactivateBody_Inverted(c, thr) ==
  IF from(c).proc # "running" THEN from(c) ELSE
  LET c1 == ensureMainThread(c, thr) IN
  IF c1.proc # "running" THEN c1
  ELSE IF c1.isActive
       THEN hostMisbehaving(c1)
       ELSE Invoke(c1, "deactivate", 0, "void")

\* Plugin::clapDeactivate
clapDeactivateBody(c, thr) ==
  IF from(c).proc # "running" THEN from(c) ELSE
  LET c1 == ensureMainThread(c, thr) IN
  IF c1.proc # "running" THEN c1
  ELSE IF ~c1.isActive
       THEN hostMisbehaving(c1)
       ELSE Invoke(c1, "deactivate", 0, "void")

\* Plugin::clapActivate lines 56-68: the already-active branch.
ActivateTwice(c, thr, sample_rate) ==
  IF c.isActive
  THEN LET c1 == hostMisbehaving(c) IN
       IF sample_rate # c1.sampleRate
       THEN clapDeactivateBody(hostMisbehaving(c1), thr)
       ELSE c1
  ELSE c

\* ActivateProceed with the assignment of sampleRate_ left out.
ActivateProceed_NoRate(c, sample_rate, ok) ==
  IF ~AssertOk(~c.isActive /\ c.sampleRate = 0)
  THEN Abort(c)
  ELSE LET c1 == Invoke(c, "activate", sample_rate, Bool2Str(ok)) IN
       IF ~ok
       THEN Return(c1, "false")
       ELSE Return([c1 EXCEPT !.isActive = TRUE], "true")

\* Plugin::clapActivate lines 77-88: the asserts, the author's hook, the
\* recording of the new state.
ActivateProceed(c, sample_rate, ok) ==
  IF ~AssertOk(~c.isActive /\ c.sampleRate = 0)
  THEN Abort(c)
  ELSE LET c1 == Invoke(c, "activate", sample_rate, Bool2Str(ok)) IN
       IF ~ok
       THEN Return(c1, "false")
       ELSE Return([c1 EXCEPT !.isActive = TRUE, !.sampleRate = sample_rate],
                   "true")

\* clapActivate refusing negative rates only (sample_rate < 0).
clapActivateBody_NegativeOnly(c, thr, sample_rate, ok) ==
  IF from(c).proc # "running" THEN from(c) ELSE
  LET c1 == ensureMainThread(c, thr) IN
  IF c1.proc # "running" THEN c1
  ELSE LET c2 == ActivateTwice(c1, thr, sample_rate) IN
       IF c2.proc # "running" THEN c2
       ELSE IF sample_rate < 0
            THEN Return(hostMisbehaving(c2), "false")
            ELSE ActivateProceed(c2, sample_rate, ok)

\* Plugin::clapActivate; ok is what the author's activate() returns.
clapActivateBody(c, thr, sample_rate, ok) ==
  IF from(c).proc # "running" THEN from(c) ELSE
  LET c1 == ensureMainThread(c, thr) IN
  IF c1.proc # "running" THEN c1
  ELSE LET c2 == ActivateTwice(c1, thr, sample_rate) IN
       IF c2.proc # "running" THEN c2
       ELSE IF sample_rate <= 0
            THEN Return(hostMisbehaving(c2), "false")
            ELSE ActivateProceed(c2, sample_rate, ok)

\* clapStartProcessing without the already-processing branch.
clapStartProcessingBody_NoTwice(c, thr, ok) ==
  IF from(c).proc # "running" THEN from(c) ELSE
  LET c1 == ensureAudioThread(c, thr) IN
  IF c1.proc # "running" THEN c1
  ELSE IF ~c1.isActive THEN Return(hostMisbehaving(c1), "false")
  ELSE LET c2 == Invoke(c1, "startProcessing", 0, Bool2Str(ok)) IN
       Return([c2 EXCEPT !.isProcessing = ok], Bool2Str(ok))

\* Plugin::clapStartProcessing; ok is what the author's startProcessing()
\* returns.
clapStartProcessingBody(c, thr, ok) ==
  IF from(c).proc # "running" THEN from(c) ELSE
  LET c1 == ensureAudioThread(c, thr) IN
  IF c1.proc # "running" THEN c1
  ELSE IF ~c1.isActive THEN Return(hostMisbehaving(c1), "false")
  ELSE IF c1.isProcessing THEN Return(hostMisbehaving(c1), "true")
  ELSE LET c2 == Invoke(c1, "startProcessing", 0, Bool2Str(ok)) IN
       Return([c2 EXCEPT !.isProcessing = ok], Bool2Str(ok))

\* Plugin::clapStopProcessing
clapStopProcessingBody(c, thr) ==
  IF from(c).proc # "running" THEN from(c) ELSE
  LET c1 == ensureAudioThread(c, thr) IN
  IF c1.proc # "running" THEN c1
  ELSE IF ~c1.isActive THEN hostMisbehaving(c1)
  ELSE IF ~c1.isProcessing THEN hostMisbehaving(c1)
  ELSE [Invoke(c1, "stopProcessing", 0, "void") EXCEPT !.isProcessing = FALSE]

\* clapProcess without the not-processing branch.
clapProcessBody_NoProcessingCheck(c, thr, status) ==
  IF from(c).proc # "running" THEN from(c) ELSE
  LET c1 == ensureAudioThread(c, thr) IN
  IF c1.proc # "running" THEN c1
  ELSE IF ~c1.isActive THEN Return(hostMisbehaving(c1), "CLAP_PROCESS_ERROR")
  ELSE Return(Invoke(c1, "process", 0, status), status)

\* Plugin::clapProcess; status is what the author's process() returns.
clapProcessBody(c, thr, status) ==
  IF from(c).proc # "running" THEN from(c) ELSE
  LET c1 == ensureAudioThread(c, thr) IN
  IF c1.proc # "running" THEN c1
  ELSE IF ~c1.isActive THEN Return(hostMisbehaving(c1), "CLAP_PROCESS_ERROR")
  ELSE IF ~c1.isProcessing
       THEN Return(hostMisbehaving(c1), "CLAP_PROCESS_ERROR")
  ELSE Return(Invoke(c1, "process", 0, status), status)

\* ------------------------------------------------------ init and interfaces
\* Plugin::initInterface for the id ExtOrder[i]: assert(!ptr), then the
\* lookup when the host has a lookup function.
initInterface(c, i) ==
  LET id == ExtOrder[i] IN
  IF ~AssertOk(~c.caps[id])
  THEN Abort(c)
  ELSE IF host_.extension
       THEN [c EXCEPT !.caps[id] = (id \in host_.provides),
                      !.extQueries[id] = @ + 1]
       ELSE c

\* Plugin::initInterfaces: the thirteen lookups in order, from the i-th on.
RECURSIVE initInterfacesFrom(_, _)
initInterfacesFrom(c, i) ==
  IF i > Len(ExtOrder) \/ c.proc # "running"
  THEN c
  ELSE initInterfacesFrom(initInterface(c, i), i + 1)

initInterfaces(c) == initInterfacesFrom(c, 1)

\* canUseTrackInfo(): the track-info table and its get function are there.
canUseTrackInfo(c) == c.caps["clap/track-info"] /\ host_.get

\* What clap_host_track_info.get may do: succeed and write a snapshot, or
\* fail, leaving the destination as it was (0) or written.
TrackGets ==
  {[ok |-> TRUE, info |-> t] : t \in 1 .. MaxTrack}
  \cup {[ok |-> FALSE, info |-> t] : t \in 0 .. MaxTrack}

\* Plugin::initTrackInfo; g is what the host's get does.
initTrackInfo(c, thr, g) ==
  LET c1 == checkMainThread(c, thr) IN
  IF c1.proc # "running" THEN c1
  ELSE IF ~AssertOk(~c1.hasTrackInfo) THEN Abort(c1)
  ELSE IF ~canUseTrackInfo(c1) THEN c1
  ELSE [c1 EXCEPT !.hasTrackInfo = g.ok,
                  !.trackInfo = IF g.info = 0 THEN @ ELSE g.info]

\* Plugin::clapInit lines 33-38
WireSlots(c) ==
  [c EXCEPT !.plugin = [s \in Slots |-> TRUE]]

\* Plugin::clapInit; ok is what the author's init() returns.
clapInitBody(c, thr, g, ok) ==
  IF from(c).proc # "running" THEN from(c) ELSE
  LET c1 == initInterfaces(WireSlots(c)) IN
  IF c1.proc # "running" THEN c1
  ELSE LET c2 == ensureMainThread(c1, thr) IN
       IF c2.proc # "running" THEN c2
       ELSE LET c3 == initTrackInfo(c2, thr, g) IN
            IF c3.proc # "running" THEN c3
            ELSE Return(Invoke(c3, "init", 0, Bool2Str(ok)), Bool2Str(ok))

\* Plugin::clapDestroy
clapDestroyBody(c, thr) ==
  IF from(c).proc # "running" THEN from(c) ELSE
  LET c1 == ensureMainThread(c, thr) IN
  IF c1.proc # "running" THEN c1
  ELSE [c1 EXCEPT !.proc = "destroyed"]

\* ids the host may ask the plugin for
PluginExtIds == {"clap/render", "clap/track-info", "clap/audio-ports",
                 "clap/params", "clap/gui"}
\* what the author's extension(id) may return
Fallbacks == {"null", "author"}
\* what the author's implementsAudioPorts(), implementsParams() and
\* extension(id) may answer during clapExtension(id); a predicate that the
\* call does not reach is listed as FALSE only
ExtAnswers(id) ==
  {[ia |-> a, ip |-> b, fb |-> f] :
     a \in (IF id = "clap/audio-ports" THEN BOOLEAN ELSE {FALSE}),
     b \in (IF id = "clap/params" THEN BOOLEAN ELSE {FALSE}),
     f \in Fallbacks}

\* clapExtension handing out the audio-ports and params tables without
\* asking implementsAudioPorts() and implementsParams().
clapExtensionBody_Unconditional(c, thr, id, ia, ip, fb) ==
  IF from(c).proc # "running" THEN from(c) ELSE
  LET c1 == ensureMainThread(c, thr) IN
  IF c1.proc # "running" THEN c1
  ELSE IF id = "clap/render" THEN Return(c1, "pluginRender_")
  ELSE IF id = "clap/track-info" THEN Return(c1, "pluginTrackInfo_")
  ELSE IF id = "clap/audio-ports" THEN Return(c1, "pluginAudioPorts_")
  ELSE IF id = "clap/params" THEN Return(c1, "pluginParams_")
  ELSE Return(Invoke(c1, "extension", 0, fb), fb)

\* Plugin::clapExtension; ia, ip and fb are what the author's
\* implementsAudioPorts(), implementsParams() and extension(id) return.
clapExtensionBody(c, thr, id, ia, ip, fb) ==
  IF from(c).proc # "running" THEN from(c) ELSE
  LET c1 == ensureMainThread(c, thr) IN
  IF c1.proc # "running" THEN c1
  ELSE IF id = "clap/render" THEN Return(c1, "pluginRender_")
  ELSE IF id = "clap/track-info" THEN Return(c1, "pluginTrackInfo_")
  ELSE LET c2 == IF id = "clap/audio-ports"
                 THEN Invoke(c1, "implementsAudioPorts", 0, Bool2Str(ia))
                 ELSE c1 IN
       IF id = "clap/audio-ports" /\ ia THEN Return(c2, "pluginAudioPorts_")
       ELSE LET c3 == IF id = "clap/params"
                      THEN Invoke(c2, "implementsParams", 0, Bool2Str(ip))
                      ELSE c2 IN
            IF id = "clap/params" /\ ip THEN Return(c3, "pluginParams_")
            ELSE Return(Invoke(c3, "extension", 0, fb), fb)

\* clapTrackInfoChanged fetching into trackInfo_ itself, as initTrackInfo does.
clapTrackInfoChangedBody_FetchInPlace(c, thr, g) ==
  IF from(c).proc # "running" THEN from(c) ELSE
  LET c1 == ensureMainThread(c, thr) IN
  IF c1.proc # "running" THEN c1
  ELSE IF ~canUseTrackInfo(c1) THEN hostMisbehaving(c1)
  ELSE IF ~g.ok
       THEN hostMisbehaving([c1 EXCEPT !.hasTrackInfo = FALSE,
                                       !.trackInfo = IF g.info = 0 THEN @
                                                     ELSE g.info])
  ELSE Invoke([c1 EXCEPT !.trackInfo = g.info, !.hasTrackInfo = TRUE],
              "trackInfoChanged", 0, "void")

\* Plugin::clapTrackInfoChanged; g is what the host's get does (into the
\* local `info`, so a failing get leaves trackInfo_ alone).
clapTrackInfoChangedBody(c, thr, g) ==
  IF from(c).proc # "running" THEN from(c) ELSE
  LET c1 == ensureMainThread(c, thr) IN
  IF c1.proc # "running" THEN c1
  ELSE IF ~canUseTrackInfo(c1) THEN hostMisbehaving(c1)
  ELSE IF ~g.ok THEN hostMisbehaving([c1 EXCEPT !.hasTrackInfo = FALSE])
  ELSE Invoke([c1 EXCEPT !.trackInfo = g.info, !.hasTrackInfo = TRUE],
              "trackInfoChanged", 0, "void")

\* -------------------------------------------------------------- audio ports
\* (uint32_t)x >= n for an int32_t x and a count n below 2^31: a negative x
\* converts to x + 2^32, which is above every such n.
U32Geq(x, n) == IF x < 0 THEN TRUE ELSE x >= n

\* Plugin::clapAudioPortsCount; n is what the author's audioPortsCount returns.
clapAudioPortsCountBody(c, thr, n) ==
  IF from(c).proc # "running" THEN from(c) ELSE
  LET c1 == ensureMainThread(c, thr) IN
  IF c1.proc # "running" THEN c1
  ELSE Return(Invoke(c1, "audioPortsCount", 0, ToString(n)), ToString(n))

\* clapAudioPortsInfo rejecting only index > count.
clapAudioPortsInfoBody_OffByOne(c, thr, index, n, ok) ==
  IF from(c).proc # "running" THEN from(c) ELSE
  LET c1 == ensureMainThread(c, thr) IN
  IF c1.proc # "running" THEN c1
  ELSE LET c2 == clapAudioPortsCountBody(c1, thr, n) IN
       IF c2.proc # "running" THEN c2
       ELSE IF index > n
            THEN Return(hostMisbehaving(c2), "false")
            ELSE Return(Invoke(c2, "audioPortsInfo", index, Bool2Str(ok)),
                        Bool2Str(ok))

\* Plugin::clapAudioPortsInfo; ok is what the author's audioPortsInfo returns.
clapAudioPortsInfoBody(c, thr, index, n, ok) ==
  IF from(c).proc # "running" THEN from(c) ELSE
  LET c1 == ensureMainThread(c, thr) IN
  IF c1.proc # "running" THEN c1
  ELSE LET c2 == clapAudioPortsCountBody(c1, thr, n) IN
       IF c2.proc # "running" THEN c2
       ELSE IF index >= n
            THEN Return(hostMisbehaving(c2), "false")
            ELSE Return(Invoke(c2, "audioPortsInfo", index, Bool2Str(ok)),
                        Bool2Str(ok))

\* Plugin::clapAudioPortsConfigCount
clapAudioPortsConfigCountBody(c, thr, n) ==
  IF from(c).proc # "running" THEN from(c) ELSE
  LET c1 == ensureMainThread(c, thr) IN
  IF c1.proc # "running" THEN c1
  ELSE Return(Invoke(c1, "audioPortsConfigCount", 0, ToString(n)), ToString(n))

\* Plugin::clapAudioPortsGetConfig
clapAudioPortsGetConfigBody(c, thr, index, n, ok) ==
  IF from(c).proc # "running" THEN from(c) ELSE
  LET c1 == ensureMainThread(c, thr) IN
  IF c1.proc # "running" THEN c1
  ELSE LET c2 == clapAudioPortsConfigCountBody(c1, thr, n) IN
       IF c2.proc # "running" THEN c2
       ELSE IF index >= n
            THEN Return(hostMisbehaving(c2), "false")
            ELSE Return(Invoke(c2, "audioPortsGetConfig", index, Bool2Str(ok)),
                        Bool2Str(ok))

\* Plugin::clapAudioPortsSetConfig: the diagnostic when active, then the
\* author's hook in either case.
clapAudioPortsSetConfigBody(c, thr, config_id, ok) ==
  IF from(c).proc # "running" THEN from(c) ELSE
  LET c1 == ensureMainThread(c, thr) IN
  IF c1.proc # "running" THEN c1
  ELSE LET c2 == IF c1.isActive THEN hostMisbehaving(c1) ELSE c1 IN
       Return(Invoke(c2, "audioPortsSetConfig", config_id, Bool2Str(ok)),
              Bool2Str(ok))

\* ------------------------------------------------------------------ params
\* The author's paramsCount() and paramsInfo(i, &info), i counted from 0.
paramsCount == Len(paramTable)
paramsInfo(i) == [ok |-> paramTable[i + 1] # NoInfo, id |-> paramTable[i + 1]]

\* Plugin::isValidParamId, the loop from index i on: paramsInfo(i) is
\* entered for each index until one reports the id; a failing paramsInfo is
\* skipped.  The result is the context and the answer.
RECURSIVE ScanParams(_, _, _)
ScanParams(c, i, param_id) ==
  IF i >= paramsCount THEN [c |-> c, valid |-> FALSE]
  ELSE LET c1 == Invoke(c, "paramsInfo", i, Bool2Str(paramsInfo(i).ok)) IN
       IF ~paramsInfo(i).ok THEN ScanParams(c1, i + 1, param_id)
       ELSE IF paramsInfo(i).id = param_id THEN [c |-> c1, valid |-> TRUE]
       ELSE ScanParams(c1, i + 1, param_id)

\* isValidParamId giving up at the first failing paramsInfo.
RECURSIVE ScanParams_StopAtFailure(_, _, _)
ScanParams_StopAtFailure(c, i, param_id) ==
  IF i >= paramsCount THEN [c |-> c, valid |-> FALSE]
  ELSE LET c1 == Invoke(c, "paramsInfo", i, Bool2Str(paramsInfo(i).ok)) IN
       IF ~paramsInfo(i).ok THEN [c |-> c1, valid |-> FALSE]
       ELSE IF paramsInfo(i).id = param_id THEN [c |-> c1, valid |-> TRUE]
       ELSE ScanParams_StopAtFailure(c1, i + 1, param_id)

isValidParamId_StopAtFailure(c, thr, param_id) ==
  LET c1 == checkMainThread(c, thr) IN
  IF c1.proc # "running" THEN [c |-> c1, valid |-> FALSE]
  ELSE ScanParams_StopAtFailure(
         Invoke(c1, "paramsCount", 0, ToString(paramsCount)), 0, param_id)

\* Plugin::isValidParamId: checkMainThread, paramsCount() once, the loop.
isValidParamId(c, thr, param_id) ==
  LET c1 == checkMainThread(c, thr) IN
  IF c1.proc # "running" THEN [c |-> c1, valid |-> FALSE]
  ELSE ScanParams(Invoke(c1, "paramsCount", 0, ToString(paramsCount)),
                  0, param_id)

\* Plugin::clapParamsCount
clapParamsCountBody(c, thr) ==
  IF from(c).proc # "running" THEN from(c) ELSE
  LET c1 == ensureMainThread(c, thr) IN
  IF c1.proc # "running" THEN c1
  ELSE Return(Invoke(c1, "paramsCount", 0, ToString(paramsCount)),
              ToString(paramsCount))

\* Plugin::clapParamsIinfo: param_index is an int32_t compared with the
\* uint32_t count.
clapParamsIinfoBody(c, thr, param_index) ==
  IF from(c).proc # "running" THEN from(c) ELSE
  LET c1 == ensureMainThread(c, thr) IN
  IF c1.proc # "running" THEN c1
  ELSE LET c2 == clapParamsCountBody(c1, thr) IN
       IF c2.proc # "running" THEN c2
       ELSE IF U32Geq(param_index, paramsCount)
            THEN Return(hostMisbehaving(c2), "false")
            ELSE Return(Invoke(c2, "paramsInfo", param_index,
                               Bool2Str(paramsInfo(param_index).ok)),
                        Bool2Str(paramsInfo(param_index).ok))

\* The id-based queries that only check the id: clapParamsEnumValue,
\* clapParamsValue, clapParamsValueToText, clapParamsTextToValue.  hook is
\* the author's function of the same name, ok what it returns.
IdQueryHooks == {"paramsEnumValue", "paramsValue", "paramsValueToText",
                 "paramsTextToValue"}

clapParamsIdQueryBody(c, thr, hook, param_id, ok) ==
  IF from(c).proc # "running" THEN from(c) ELSE
  LET c1 == ensureMainThread(c, thr) IN
  IF c1.proc # "running" THEN c1
  ELSE LET v == isValidParamId(c1, thr, param_id) IN
       IF v.c.proc # "running" THEN v.c
       ELSE IF ~v.valid
            THEN Return(hostMisbehaving(v.c), "false")
            ELSE Return(Invoke(v.c, hook, param_id, Bool2Str(ok)), Bool2Str(ok))

\* Plugin::clapParamsSetValue
clapParamsSetValueBody(c, thr, param_id, ok) ==
  IF from(c).proc # "running" THEN from(c) ELSE
  LET c1 == ensureMainThread(c, thr) IN
  IF c1.proc # "running" THEN c1
  ELSE IF c1.isActive THEN Return(hostMisbehaving(c1), "false")
  ELSE LET v == isValidParamId(c1, thr, param_id) IN
       IF v.c.proc # "running" THEN v.c
       ELSE IF ~v.valid
            THEN Return(hostMisbehaving(v.c), "false")
            ELSE Return(Invoke(v.c, "paramsSetValue", param_id, Bool2Str(ok)),
                        Bool2Str(ok))

\* ------------------------------------------------------------------- state
\* Plugin::Plugin and the member initialisers: init and destroy are the only
\* assigned slots, every host interface pointer is null, the instance is
\* inactive with sample rate 0.
InitWith(hosts, tables) ==
  /\ host_ \in hosts
  /\ ndebug \in BOOLEAN
  /\ paramTable \in tables
  /\ plugin_ = [s \in Slots |-> s \in {"init", "destroy"}]
  /\ caps = [id \in ExtIds |-> FALSE]
  /\ extQueries = [id \in ExtIds |-> 0]
  /\ nInit = 0
  /\ isActive_ = FALSE
  /\ isProcessing_ = FALSE
  /\ sampleRate_ = 0
  /\ hasTrackInfo_ = FALSE
  /\ trackInfo_ = 0
  /\ proc = "running"
  /\ last = [op |-> "Plugin", ptr |-> "instance", arg |-> 0, thr |-> "main",
             pre |-> Life,
             ret |-> "void", diag |-> 0, hooks |-> << >>]
  /\ scen = 0

\* sizeof(a.name): the descriptor's name is a char array of this size.
NameSize == 2

\* A byte of a name: NUL or a letter.
Chars == {0, 1}

Names == [1 .. NameSize -> Chars]

PortInfos ==
  [id : {0, 1}, name : Names, channel_count : {1, 2}, channel_map : {0, 1},
   sample_size : {32, 64}, is_main : BOOLEAN, is_cv : BOOLEAN,
   in_place : BOOLEAN]

\* The descriptors that carry the first value of every field but the name.
BasePortInfos ==
  { p \in PortInfos :
      /\ p.id = 0 /\ p.channel_count = 1 /\ p.channel_map = 0
      /\ p.sample_size = 32 /\ ~p.is_main /\ ~p.is_cv /\ ~p.in_place }

\* No comparison is asked for: both descriptors are the first of all.
NoCompare ==
  /\ cmpA = CHOOSE p \in BasePortInfos : \A i \in DOMAIN p.name : p.name[i] = 0
  /\ cmpB = cmpA

\* Every host, with an author whose table is the one of LifeTables.
Init == InitWith(Hosts, LifeTables) /\ NoCompare

\* Every parameter table, with the host that provides nothing.
InitParams ==
  /\ InitWith({h \in Hosts : h.extension /\ h.provides = {}}, ParamTables)
  /\ NoCompare

\* The well-behaved call sequence: each call on its required thread,
\* activate with a positive rate, no author hook returning failure.
Scenario == << "init", "activate", "start_processing", "process",
               "stop_processing", "deactivate", "destroy" >>

RequiredThread(op) ==
  IF op \in {"process", "start_processing", "stop_processing"}
  THEN "audio" ELSE "main"

ScenarioStep(op, arg, thr, c) ==
  IF /\ scen >= 0
     /\ scen < Len(Scenario)
     /\ op = Scenario[scen + 1]
     /\ c.ptr = "instance"
     /\ thr = RequiredThread(op)
     /\ (op = "activate" => arg > 0)
     /\ \A i \in DOMAIN c.hooks : c.hooks[i].res # "false"
  THEN scen + 1
  ELSE -1

\* The call `op` returns (or ends the process) in context c.
Commit(op, arg, thr, c) ==
  /\ scen' = ScenarioStep(op, arg, thr, c)
  /\ plugin_' = c.plugin
  /\ caps' = c.caps
  /\ extQueries' = c.extQueries
  /\ isActive_' = c.isActive
  /\ isProcessing_' = c.isProcessing
  /\ sampleRate_' = c.sampleRate
  /\ hasTrackInfo_' = c.hasTrackInfo
  /\ trackInfo_' = c.trackInfo
  /\ proc' = c.proc
  /\ last' = [op |-> op, ptr |-> c.ptr, arg |-> arg, thr |-> thr, pre |-> Life,
              ret |-> c.ret, diag |-> c.diag, hooks |-> c.hooks]
  /\ UNCHANGED << host_, ndebug, paramTable, cmpA, cmpB >>

\* The host can call through a slot only once it is assigned.
Callable(slot) == proc = "running" /\ plugin_[slot]

\* The extension tables are handed out by clapExtension.
ExtCallable == Callable("extension")

\* ------------------------------------------------------------ entry points
\* Plugin::from ends a call with an invalid pointer before any other
\* argument is read: such a call is drawn with one value of each of them.
Pinned(x, S) == x = CHOOSE y \in S : TRUE

clapInit ==
  \E plugin \in PluginPointers,
     thr \in Threads, g \in TrackGets, ok \in BOOLEAN :
    /\ \/ plugin = "instance"
       \/ /\ Pinned(thr, Threads)
          /\ Pinned(g, TrackGets)
          /\ Pinned(ok, BOOLEAN)
    /\ Callable("init")
    /\ nInit < MaxInit
    /\ nInit' = nInit + 1
    /\ Commit("init", 0, thr, clapInitBody(Begin(plugin), thr, g, ok))

clapDestroy ==
  \E plugin \in PluginPointers, thr \in Threads :
    /\ \/ plugin = "instance"
       \/ Pinned(thr, Threads)
    /\ Callable("destroy")
    /\ Commit("destroy", 0, thr, clapDestroyBody(Begin(plugin), thr))
    /\ UNCHANGED nInit

clapActivate ==
  \E plugin \in PluginPointers,
     thr \in Threads, sample_rate \in Rates, ok \in BOOLEAN :
    /\ \/ plugin = "instance"
       \/ /\ Pinned(thr, Threads)
          /\ Pinned(sample_rate, Rates)
          /\ Pinned(ok, BOOLEAN)
    /\ Callable("activate")
    /\ Commit("activate", sample_rate, thr,
              clapActivateBody(Begin(plugin), thr, sample_rate, ok))
    /\ UNCHANGED nInit

clapDeactivate ==
  \E plugin \in PluginPointers, thr \in Threads :
    /\ \/ plugin = "instance"
       \/ Pinned(thr, Threads)
    /\ Callable("deactivate")
    /\ Commit("deactivate", 0, thr, clapDeactivateBody(Begin(plugin), thr))
    /\ UNCHANGED nInit

clapStartProcessing ==
  \E plugin \in PluginPointers, thr \in Threads, ok \in BOOLEAN :
    /\ \/ plugin = "instance"
       \/ /\ Pinned(thr, Threads)
          /\ Pinned(ok, BOOLEAN)
    /\ Callable("start_processing")
    /\ Commit("start_processing", 0, thr,
              clapStartProcessingBody(Begin(plugin), thr, ok))
    /\ UNCHANGED nInit

clapStopProcessing ==
  \E plugin \in PluginPointers, thr \in Threads :
    /\ \/ plugin = "instance"
       \/ Pinned(thr, Threads)
    /\ Callable("stop_processing")
    /\ Commit("stop_processing", 0, thr,
              clapStopProcessingBody(Begin(plugin), thr))
    /\ UNCHANGED nInit

clapProcess ==
  \E plugin \in PluginPointers, thr \in Threads, status \in ProcessStatuses :
    /\ \/ plugin = "instance"
       \/ /\ Pinned(thr, Threads)
          /\ Pinned(status, ProcessStatuses)
    /\ Callable("process")
    /\ Commit("process", 0, thr, clapProcessBody(Begin(plugin), thr, status))
    /\ UNCHANGED nInit

clapExtension ==
  \E plugin \in PluginPointers, thr \in Threads, id \in PluginExtIds :
    \E a \in ExtAnswers(id) :
      /\ \/ plugin = "instance"
         \/ /\ Pinned(thr, Threads)
            /\ Pinned(id, PluginExtIds)
            /\ Pinned(a, ExtAnswers(id))
      /\ Callable("extension")
      /\ Commit(id, 0, thr,
                clapExtensionBody(Begin(plugin), thr, id, a.ia, a.ip, a.fb))
      /\ UNCHANGED nInit

clapTrackInfoChanged ==
  \E plugin \in PluginPointers, thr \in Threads, g \in TrackGets :
    /\ \/ plugin = "instance"
       \/ /\ Pinned(thr, Threads)
          /\ Pinned(g, TrackGets)
    /\ ExtCallable
    /\ Commit("track_info.changed", IF g.ok THEN g.info ELSE 0, thr,
              clapTrackInfoChangedBody(Begin(plugin), thr, g))
    /\ UNCHANGED nInit

clapAudioPortsCount ==
  \E plugin \in PluginPointers, thr \in Threads, n \in 0 .. MaxPorts :
    /\ \/ plugin = "instance"
       \/ /\ Pinned(thr, Threads)
          /\ Pinned(n, 0 .. MaxPorts)
    /\ ExtCallable
    /\ Commit("audio_ports.count", 0, thr,
              clapAudioPortsCountBody(Begin(plugin), thr, n))
    /\ UNCHANGED nInit

clapAudioPortsInfo ==
  \E plugin \in PluginPointers,
     thr \in Threads, index \in 0 .. (MaxPorts + 1), n \in 0 .. MaxPorts,
     ok \in BOOLEAN :
    /\ \/ plugin = "instance"
       \/ /\ Pinned(thr, Threads)
          /\ Pinned(index, 0 .. (MaxPorts + 1))
          /\ Pinned(n, 0 .. MaxPorts)
          /\ Pinned(ok, BOOLEAN)
    /\ ExtCallable
    /\ Commit("audio_ports.info", index, thr,
              clapAudioPortsInfoBody(Begin(plugin), thr, index, n, ok))
    /\ UNCHANGED nInit

clapAudioPortsConfigCount ==
  \E plugin \in PluginPointers, thr \in Threads, n \in 0 .. MaxPorts :
    /\ \/ plugin = "instance"
       \/ /\ Pinned(thr, Threads)
          /\ Pinned(n, 0 .. MaxPorts)
    /\ ExtCallable
    /\ Commit("audio_ports.config_count", 0, thr,
              clapAudioPortsConfigCountBody(Begin(plugin), thr, n))
    /\ UNCHANGED nInit

clapAudioPortsGetConfig ==
  \E plugin \in PluginPointers,
     thr \in Threads, index \in 0 .. (MaxPorts + 1), n \in 0 .. MaxPorts,
     ok \in BOOLEAN :
    /\ \/ plugin = "instance"
       \/ /\ Pinned(thr, Threads)
          /\ Pinned(index, 0 .. (MaxPorts + 1))
          /\ Pinned(n, 0 .. MaxPorts)
          /\ Pinned(ok, BOOLEAN)
    /\ ExtCallable
    /\ Commit("audio_ports.get_config", index, thr,
              clapAudioPortsGetConfigBody(Begin(plugin), thr, index, n, ok))
    /\ UNCHANGED nInit

clapAudioPortsSetConfig ==
  \E plugin \in PluginPointers,
     thr \in Threads, config_id \in 0 .. MaxPorts, ok \in BOOLEAN :
    /\ \/ plugin = "instance"
       \/ /\ Pinned(thr, Threads)
          /\ Pinned(config_id, 0 .. MaxPorts)
          /\ Pinned(ok, BOOLEAN)
    /\ ExtCallable
    /\ Commit("audio_ports.set_config", config_id, thr,
              clapAudioPortsSetConfigBody(Begin(plugin), thr, config_id, ok))
    /\ UNCHANGED nInit

clapParamsCount ==
  \E plugin \in PluginPointers, thr \in Threads :
    /\ \/ plugin = "instance"
       \/ Pinned(thr, Threads)
    /\ ExtCallable
    /\ Commit("params.count", 0, thr, clapParamsCountBody(Begin(plugin), thr))
    /\ UNCHANGED nInit

clapParamsIinfo ==
  \E plugin \in PluginPointers,
     thr \in Threads, param_index \in -1 .. MaxParams :
    /\ \/ plugin = "instance"
       \/ /\ Pinned(thr, Threads)
          /\ Pinned(param_index, -1 .. MaxParams)
    /\ ExtCallable
    /\ Commit("params.info", param_index, thr,
              clapParamsIinfoBody(Begin(plugin), thr, param_index))
    /\ UNCHANGED nInit

clapParamsIdQuery ==
  \E plugin \in PluginPointers,
     thr \in Threads, hook \in IdQueryHooks, param_id \in HostParamIds,
     ok \in BOOLEAN :
    /\ \/ plugin = "instance"
       \/ /\ Pinned(thr, Threads)
          /\ Pinned(hook, IdQueryHooks)
          /\ Pinned(param_id, HostParamIds)
          /\ Pinned(ok, BOOLEAN)
    /\ ExtCallable
    /\ Commit(hook, param_id, thr,
              clapParamsIdQueryBody(Begin(plugin), thr, hook, param_id, ok))
    /\ UNCHANGED nInit

clapParamsSetValue ==
  \E plugin \in PluginPointers,
     thr \in Threads, param_id \in HostParamIds, ok \in BOOLEAN :
    /\ \/ plugin = "instance"
       \/ /\ Pinned(thr, Threads)
          /\ Pinned(param_id, HostParamIds)
          /\ Pinned(ok, BOOLEAN)
    /\ ExtCallable
    /\ Commit("paramsSetValue", param_id, thr,
              clapParamsSetValueBody(Begin(plugin), thr, param_id, ok))
    /\ UNCHANGED nInit

Next ==
  \/ clapInit
  \/ clapDestroy
  \/ clapActivate
  \/ clapDeactivate
  \/ clapStartProcessing
  \/ clapStopProcessing
  \/ clapProcess
  \/ clapExtension
  \/ clapTrackInfoChanged
  \/ clapAudioPortsCount
  \/ clapAudioPortsInfo
  \/ clapAudioPortsConfigCount
  \/ clapAudioPortsGetConfig
  \/ clapAudioPortsSetConfig
  \/ clapParamsCount
  \/ clapParamsIinfo
  \/ clapParamsIdQuery
  \/ clapParamsSetValue

Spec == Init /\ [][Next]_vars

\* The calls that the parameter queries depend on (the lifecycle calls that
\* write isActive_) and the parameter entry points, over every table.
NextParams ==
  \/ clapInit
  \/ clapDestroy
  \/ clapActivate
  \/ clapDeactivate
  \/ clapParamsCount
  \/ clapParamsIinfo
  \/ clapParamsIdQuery
  \/ clapParamsSetValue

SpecParams == InitParams /\ [][NextParams]_vars

----------------------------------------------------------------------------
\* Plugin::compareAudioPortsInfo, a static helper over two port descriptors.

\* strncmp(a, b, n) from byte i on: the difference of the first pair of
\* bytes that differ, 0 when a NUL or the n-th byte is passed before that.
RECURSIVE strncmpFrom(_, _, _, _)
strncmpFrom(a, b, i, n) ==
  IF i > n THEN 0
  ELSE IF a[i] # b[i] THEN a[i] - b[i]
  ELSE IF a[i] = 0 THEN 0
  ELSE strncmpFrom(a, b, i + 1, n)

strncmp(a, b, n) == strncmpFrom(a, b, 1, n)

\* compareAudioPortsInfo that does not compare the ids.
compareAudioPortsInfo_NoId(a, b) ==
  IF \/ a.sample_size # b.sample_size
     \/ a.in_place # b.in_place
     \/ a.is_cv # b.is_cv
     \/ a.is_main # b.is_main
     \/ a.channel_count # b.channel_count
     \/ a.channel_map # b.channel_map
  THEN "CLAP_AUDIO_PORTS_RESCAN_ALL"
  ELSE IF strncmp(a.name, b.name, NameSize) # 0
       THEN "CLAP_AUDIO_PORTS_RESCAN_NAMES"
       ELSE "0"

compareAudioPortsInfo(a, b) ==
  IF \/ a.sample_size # b.sample_size
     \/ a.in_place # b.in_place
     \/ a.is_cv # b.is_cv
     \/ a.is_main # b.is_main
     \/ a.channel_count # b.channel_count
     \/ a.channel_map # b.channel_map
     \/ a.id # b.id
  THEN "CLAP_AUDIO_PORTS_RESCAN_ALL"
  ELSE IF strncmp(a.name, b.name, NameSize) # 0
       THEN "CLAP_AUDIO_PORTS_RESCAN_NAMES"
       ELSE "0"

\* A call of the helper: it reads and writes nothing of the instance.
compareAudioPortsInfoCall ==
  /\ last' = [op |-> "compareAudioPortsInfo", ptr |-> "instance",
              arg |-> << cmpA, cmpB >>,
              thr |-> "main", pre |-> Life,
              ret |-> compareAudioPortsInfo(cmpA, cmpB), diag |-> 0,
              hooks |-> << >>]
  /\ UNCHANGED << host_, ndebug, paramTable, plugin_, caps, extQueries,
                  nInit, isActive_, isProcessing_, sampleRate_,
                  hasTrackInfo_, trackInfo_, proc, scen, cmpA, cmpB >>

\* Every pair of descriptors of which one is a base descriptor.
InitCompare ==
  /\ InitWith({h \in Hosts : h.extension /\ h.provides = {}}, LifeTables)
  /\ cmpA \in PortInfos
  /\ cmpB \in PortInfos
  /\ cmpA \in BasePortInfos \/ cmpB \in BasePortInfos

NextCompare == compareAudioPortsInfoCall

SpecCompare == InitCompare /\ [][NextCompare]_vars

\* ================================================================== claims
\* The most recent call ran to its return.
Returned == last.ret \notin {"terminated", "aborted"}

\* How often the most recent call entered the author's hook `name`.
HookCount(h, name) == Cardinality({i \in DOMAIN h.hooks : h.hooks[i].name = name})

LateSlots == {"process", "activate", "deactivate", "start_processing",
              "stop_processing"}

\* C1: every clapDeactivate on an Active instance invokes the author's
\* deactivate hook once and returns with the instance Inactive and the
\* recorded sample rate 0.
C1_DeactivateResets ==
  (last.op = "deactivate" /\ last.pre.isActive /\ Returned)
    => /\ HookCount(last, "deactivate") = 1
       /\ ~isActive_
       /\ sampleRate_ = 0

\* C2: in every reachable state the recorded sample rate is 0 exactly when
\* the instance is not active and is positive exactly when it is active.
C2_SampleRateTracksActive ==
  /\ (sampleRate_ = 0) <=> ~isActive_
  /\ (sampleRate_ > 0) <=> isActive_

C2_Witness ==
  /\ last.op = "activate"
  /\ last.ret = "true"
  /\ isActive_
  /\ sampleRate_ = last.arg
  /\ last.arg > 0

\* C3: activate(sr2) on an instance active with another rate, sr2 > 0: the
\* deactivate path runs, the instance is Inactive with sample rate 0 when the
\* new activation proceeds (the author's activate hook is entered), and the
\* activation succeeds with the recorded rate sr2.
C3_ReactivateDeactivatesFirst ==
  (/\ last.op = "activate"
   /\ last.pre.isActive
   /\ last.arg > 0
   /\ last.arg # last.pre.sampleRate
   /\ last.ret # "terminated")
    => /\ HookCount(last, "deactivate") = 1
       /\ last.ret # "aborted"
       /\ HookCount(last, "activate") = 1
       /\ \A i \in DOMAIN last.hooks :
            last.hooks[i].name = "activate"
              => /\ ~last.hooks[i].isActive
                 /\ last.hooks[i].sampleRate = 0
                 /\ (last.hooks[i].res = "true"
                       => last.ret = "true" /\ sampleRate_ = last.arg)

\* C4: clapActivate with a sample rate <= 0 on an Inactive instance returns
\* failure with a diagnostic, does not enter the author's activate hook and
\* leaves the instance Inactive with rate 0; the next clapActivate, with a
\* positive rate sr, enters the author's hook and, when the hook accepts,
\* returns success with the recorded rate sr.
C4_Refused ==
  /\ last.op = "activate"
  /\ ~last.pre.isActive
  /\ last.arg <= 0
  /\ Returned

C4_RefusedState ==
  C4_Refused => /\ last.ret = "false"
                /\ last.diag >= 1
                /\ last.hooks = << >>
                /\ ~isActive_
                /\ sampleRate_ = 0

C4_ThenActivate ==
  (/\ C4_Refused
   /\ last'.op = "activate"
   /\ last'.arg > 0
   /\ last'.ret # "terminated")
    => /\ last'.ret # "aborted"
       /\ Len(last'.hooks) = 1
       /\ last'.hooks[1].name = "activate"
       /\ last'.hooks[1].arg = last'.arg
       /\ last'.ret = last'.hooks[1].res
       /\ (last'.ret = "true" => isActive_' /\ sampleRate_' = last'.arg)
       /\ (last'.ret = "false" => ~isActive_' /\ sampleRate_' = 0)

C4_InvalidRateRefused == [] C4_RefusedState /\ [][C4_ThenActivate]_vars

C4_Witness ==
  /\ C4_Refused
  /\ last.arg = 0
  /\ last.ret = "false"
  /\ last.diag = 1

\* C5: clapProcess on an instance that is Inactive, or Active and not
\* processing, returns CLAP_PROCESS_ERROR with a diagnostic and does not
\* enter the author's process hook; the hook is entered only when the
\* instance is Active and processing.
C5_ProcessGuarded ==
  /\ (last.op = "process" /\ Returned
        /\ (~last.pre.isActive \/ ~last.pre.isProcessing))
       => /\ last.ret = "CLAP_PROCESS_ERROR"
          /\ last.diag >= 1
          /\ last.hooks = << >>
  /\ \A i \in DOMAIN last.hooks :
       last.hooks[i].name = "process"
         => last.hooks[i].isActive /\ last.hooks[i].isProcessing

C5_Witness ==
  /\ last.op = "process"
  /\ last.pre.isActive
  /\ ~last.pre.isProcessing
  /\ last.ret = "CLAP_PROCESS_ERROR"
  /\ last.diag = 1

\* C6: clapStartProcessing twice in a row on an Active instance whose
\* author hook accepts: both calls return true, the hook is entered by the
\* first call only, the second call reports a diagnostic, and the
\* processing flag is true after each call.
C6_FirstStart ==
  /\ last.op = "start_processing"
  /\ last.pre.isActive
  /\ ~last.pre.isProcessing
  /\ Returned

C6_FirstStartState ==
  C6_FirstStart
    => /\ HookCount(last, "startProcessing") = 1
       /\ Len(last.hooks) = 1
       /\ last.ret = last.hooks[1].res
       /\ isProcessing_ = (last.ret = "true")

C6_SecondStart ==
  (/\ C6_FirstStart
   /\ last.ret = "true"
   /\ last'.op = "start_processing"
   /\ last'.ret # "terminated")
    => /\ isProcessing_
       /\ last'.ret = "true"
       /\ last'.hooks = << >>
       /\ last'.diag >= 1
       /\ isProcessing_'

C6_StartTwice == [] C6_FirstStartState /\ [][C6_SecondStart]_vars

C6_Witness ==
  /\ last.op = "start_processing"
  /\ last.pre.isActive
  /\ last.pre.isProcessing
  /\ last.ret = "true"
  /\ last.diag = 1
  /\ last.hooks = << >>
  /\ isProcessing_

\* Call h entered the author's hook `name` once, as its last hook, with the
\* call's argument, and returned what the hook returned.
Delegated(h, name) ==
  /\ HookCount(h, name) = 1
  /\ h.hooks[Len(h.hooks)].name = name
  /\ h.hooks[Len(h.hooks)].arg = h.arg
  /\ h.ret = h.hooks[Len(h.hooks)].res

\* Some index in [0, paramsCount()) reports the id through paramsInfo.
Reported(id) ==
  \E i \in 0 .. (paramsCount - 1) : paramsInfo(i).ok /\ paramsInfo(i).id = id

\* C7: clapParamsSetValue while Active returns failure with a diagnostic and
\* does not enter the author's hook; while Inactive with a valid id it
\* enters the hook and returns its result; and after a clapDeactivate of an
\* active instance the instance counts as Inactive for this call.
C7_SetValueByState ==
  (last.op = "paramsSetValue" /\ Returned)
    => IF last.pre.isActive
       THEN last.ret = "false" /\ last.diag >= 1 /\ last.hooks = << >>
       ELSE Reported(last.arg) => Delegated(last, "paramsSetValue")

C7_AfterDeactivate ==
  (/\ last.op = "deactivate"
   /\ HookCount(last, "deactivate") = 1
   /\ Returned
   /\ last'.op = "paramsSetValue"
   /\ Reported(last'.arg)
   /\ last'.ret # "terminated")
    => Delegated(last', "paramsSetValue")

C7_SetValueOnlyWhileInactive ==
  [] C7_SetValueByState /\ [][C7_AfterDeactivate]_vars

\* C8: clapAudioPortsSetConfig while Active reports a diagnostic, returns
\* failure and does not enter the author's audioPortsSetConfig hook.
C8_SetConfigRefusedWhileActive ==
  (last.op = "audio_ports.set_config" /\ last.pre.isActive /\ Returned)
    => /\ last.diag >= 1
       /\ last.ret = "false"
       /\ HookCount(last, "audioPortsSetConfig") = 0

\* clapInit was called with the instance's pointer: some call of it got past
\* Plugin::from (a call with an invalid pointer ends the process there).
InitEntered ==
  /\ nInit > 0
  /\ ~(nInit = 1 /\ last.op = "init" /\ last.ptr # "instance")

\* No call of the author's init hook has returned success: nothing was
\* called yet, or the only clapInit so far did not return true.
InitNeverSucceeded ==
  \/ nInit = 0
  \/ (nInit = 1 /\ last.op = "init" /\ last.ret # "true")

\* C9: the slots process, activate, deactivate, start_processing and
\* stop_processing are null until the author's init hook has returned
\* success, also after a clapInit whose author hook returned failure.
C9_SlotsNullUntilInitSucceeds ==
  InitNeverSucceeded => \A s \in LateSlots : ~plugin_[s]

\* C10: isValidParamId(id) is true iff some index in [0, paramsCount())
\* reports the id, also when paramsInfo fails at other indices; an id-based
\* query with an id no index reports returns failure with a diagnostic and
\* does not enter the author's hook; with a reported id it enters the
\* author's hook of that query once, with that id, and returns its result
\* (paramsSetValue: when the instance is Inactive).
IdBasedOps == IdQueryHooks \cup {"paramsSetValue"}

C10_IdValidation ==
  /\ \A id \in HostParamIds :
       isValidParamId(Begin("instance"), "main", id).valid <=> Reported(id)
  /\ (last.op \in IdBasedOps /\ Returned)
       => IF ~Reported(last.arg)
          THEN /\ last.ret = "false"
               /\ last.diag >= 1
               /\ HookCount(last, last.op) = 0
          ELSE (last.op = "paramsSetValue" => ~last.pre.isActive)
                 => Delegated(last, last.op)

C10_Witness ==
  /\ paramTable = <<NoInfo, 1>>
  /\ last.op = "paramsValue"
  /\ last.arg = 1
  /\ HookCount(last, "paramsInfo") = 2
  /\ last.hooks[2].res = "false"
  /\ HookCount(last, "paramsValue") = 1
  /\ last.ret = "true"

\* The count hook and the info hook of each index-based query.
IndexOps == {"audio_ports.info", "audio_ports.get_config", "params.info"}

CountHookOf(op) ==
  CASE op = "audio_ports.info" -> "audioPortsCount"
    [] op = "audio_ports.get_config" -> "audioPortsConfigCount"
    [] op = "params.info" -> "paramsCount"

InfoHookOf(op) ==
  CASE op = "audio_ports.info" -> "audioPortsInfo"
    [] op = "audio_ports.get_config" -> "audioPortsGetConfig"
    [] op = "params.info" -> "paramsInfo"

\* The number that a count hook returned.
CountReturned(entry) ==
  CHOOSE n \in 0 .. (MaxPorts + MaxParams) : ToString(n) = entry.res

\* C11: an index-based query asks the corresponding count hook once; with
\* an index outside [0, count), a negative param_index included, it returns
\* failure with a diagnostic and never enters the info/get-config hook; with
\* an index in [0, count) it enters that hook with that index.
C11_IndexValidation ==
  (last.op \in IndexOps /\ Returned)
    => /\ Len(last.hooks) >= 1
       /\ last.hooks[1].name = CountHookOf(last.op)
       /\ HookCount(last, CountHookOf(last.op)) = 1
       /\ IF 0 <= last.arg /\ last.arg < CountReturned(last.hooks[1])
          THEN /\ Len(last.hooks) = 2
               /\ last.hooks[2].name = InfoHookOf(last.op)
               /\ last.hooks[2].arg = last.arg
               /\ last.ret = last.hooks[2].res
          ELSE /\ last.ret = "false"
               /\ last.diag >= 1
               /\ HookCount(last, InfoHookOf(last.op)) = 0

C11_Witness ==
  /\ last.op = "params.info"
  /\ last.arg = -1
  /\ last.ret = "false"
  /\ last.diag = 1
  /\ Len(last.hooks) = 1

\* The entry points guarded by ensureAudioThread; every other one is
\* guarded by ensureMainThread.
AudioOps == {"process", "start_processing", "stop_processing"}

\* The host's thread check, as the adapter holds it in `held`, reports that
\* the thread of call h is not of the class the entry point requires.
WrongThread(h, held) ==
  /\ h.ptr = "instance"
  /\ held["clap/thread-check"]
  /\ IF h.op \in AudioOps
     THEN host_.is_audio_thread /\ h.thr # "audio"
     ELSE host_.is_main_thread /\ h.thr # "main"

\* The call just made was given the instance's pointer and ended in
\* std::terminate: it was ended by its thread guard, not by Plugin::from.
C12_EndedByGuard == last'.ptr = "instance" /\ last'.ret = "terminated"

\* C12 as stated: a call that the thread guard terminates has reported a
\* diagnostic, entered no author hook and changed no adapter state
\* (function-pointer slots, capability set, lifecycle flags, track-info
\* cache).
C12_Untouched ==
  C12_EndedByGuard
    => /\ last'.diag >= 1
       /\ last'.hooks = << >>
       /\ UNCHANGED << plugin_, caps, isActive_, isProcessing_, sampleRate_,
                       hasTrackInfo_, trackInfo_ >>

C12_GuardAtTop == [][C12_Untouched]_vars

\* C12 amended: in every entry point other than clapInit the guard is the
\* first thing: on a wrong thread the call reports one diagnostic and
\* terminates with no author hook entered and no adapter state changed.
\* clapInit assigns the slots and looks up the host's extensions first; its
\* guard, using the thread check just looked up, then terminates before the
\* track-info fetch and the author's init hook, with the lifecycle flags and
\* the track-info cache unchanged.
C12_OtherEntryPoints ==
  (last'.op # "init")
    => /\ WrongThread(last', caps) => last'.ret = "terminated"
       /\ C12_EndedByGuard
            => /\ WrongThread(last', caps)
               /\ last'.diag = 1
               /\ last'.hooks = << >>
               /\ UNCHANGED << plugin_, caps, extQueries, isActive_,
                               isProcessing_, sampleRate_, hasTrackInfo_,
                               trackInfo_ >>

C12_InitEntryPoint ==
  (last'.op = "init")
    => /\ (WrongThread(last', caps') /\ last'.ret # "aborted")
            => last'.ret = "terminated"
       /\ C12_EndedByGuard
            => /\ WrongThread(last', caps')
               /\ last'.diag = 1
               /\ last'.hooks = << >>
               /\ \A s \in Slots : plugin_'[s]
               /\ UNCHANGED << isActive_, isProcessing_, sampleRate_,
                               hasTrackInfo_, trackInfo_ >>

C12_GuardBeforeHooks == [][C12_OtherEntryPoints /\ C12_InitEntryPoint]_vars

C12_Witness ==
  /\ last.op = "init"
  /\ last.thr = "audio"
  /\ last.ret = "terminated"
  /\ last.diag = 1
  /\ caps["clap/thread-check"]
  /\ plugin_["process"]

\* C13: when the author's activate hook returns failure, clapActivate returns
\* failure and the instance is Inactive with sample rate 0 afterwards; when
\* the author's startProcessing hook returns failure, clapStartProcessing
\* returns failure and the processing flag is false; in both cases the
\* lifecycle state after the call is the state before it.
C13_ActivateHookFails ==
  (/\ last.op = "activate"
   /\ \E i \in DOMAIN last.hooks :
        last.hooks[i].name = "activate" /\ last.hooks[i].res = "false")
    => /\ last.ret = "false"
       /\ ~isActive_
       /\ sampleRate_ = 0
       /\ Life = last.pre

C13_StartHookFails ==
  (/\ last.op = "start_processing"
   /\ \E i \in DOMAIN last.hooks :
        last.hooks[i].name = "startProcessing" /\ last.hooks[i].res = "false")
    => /\ last.ret = "false"
       /\ ~isProcessing_
       /\ Life = last.pre

C13_AuthorFailureLeavesState == C13_ActivateHookFails /\ C13_StartHookFails

\* C14: along init, activate(rate > 0), startProcessing, process,
\* stopProcessing, deactivate, destroy, with every author hook succeeding
\* and every call on its required thread, no call reports a misbehaviour
\* diagnostic, every call runs to its return and reaches its author hook,
\* and process returns the status that the author's process hook returned.
C14_StepDone(name) ==
  /\ Len(last.hooks) = 1
  /\ last.hooks[1].name = name
  /\ last.ret = last.hooks[1].res

C14_WellBehavedRun ==
  (scen > 0)
    => /\ last.op = Scenario[scen]
       /\ last.diag = 0
       /\ Returned
       /\ (scen = 1 => C14_StepDone("init") /\ last.ret = "true")
       /\ (scen = 2 => /\ C14_StepDone("activate")
                       /\ last.ret = "true"
                       /\ isActive_
                       /\ sampleRate_ = last.arg)
       /\ (scen = 3 => /\ C14_StepDone("startProcessing")
                       /\ last.ret = "true"
                       /\ isProcessing_)
       /\ (scen = 4 => C14_StepDone("process"))
       /\ (scen = 5 => /\ HookCount(last, "stopProcessing") = 1
                       /\ Len(last.hooks) = 1
                       /\ ~isProcessing_)
       /\ (scen = 6 => /\ HookCount(last, "deactivate") = 1
                       /\ Len(last.hooks) = 1)
       /\ (scen = 7 => proc = "destroyed" /\ last.hooks = << >>)

C14_Witness ==
  /\ scen = 7
  /\ proc = "destroyed"
  /\ last.op = "destroy"

\* C15: compareAudioPortsInfo(a, b) is the full-rescan signal whenever a and
\* b differ in sample size, in-place flag, CV flag, main-port flag, channel
\* count, channel map or id, whatever their names; the names-only signal when
\* they differ only in the name (the string held in the name array); 0 when
\* they do not differ, in particular when a = b; and the same as
\* compareAudioPortsInfo(b, a).
CStrLen(name) ==
  IF \E i \in DOMAIN name : name[i] = 0
  THEN (CHOOSE i \in DOMAIN name :
          name[i] = 0 /\ \A j \in 1 .. (i - 1) : name[j] # 0) - 1
  ELSE Len(name)

CStr(name) == SubSeq(name, 1, CStrLen(name))

StructuralFields ==
  {"sample_size", "in_place", "is_cv", "is_main", "channel_count",
   "channel_map", "id"}

C15_Compared(a, b, r) ==
  LET structural == \E f \in StructuralFields : a[f] # b[f]
      named      == CStr(a.name) # CStr(b.name)
  IN /\ structural => r = "CLAP_AUDIO_PORTS_RESCAN_ALL"
     /\ (~structural /\ named) => r = "CLAP_AUDIO_PORTS_RESCAN_NAMES"
     /\ (~structural /\ ~named) => r = "0"
     /\ (a = b) => r = "0"
     /\ r = compareAudioPortsInfo(b, a)

C15_CompareAudioPortsInfo ==
  (last.op = "compareAudioPortsInfo")
    => /\ last.arg = << cmpA, cmpB >>
       /\ C15_Compared(cmpA, cmpB, last.ret)

C15_Witness ==
  /\ last.op = "compareAudioPortsInfo"
  /\ last.ret = "CLAP_AUDIO_PORTS_RESCAN_NAMES"
  /\ last.arg[1].id = last.arg[2].id
  /\ last.arg[1].name # last.arg[2].name

\* C16: the author's activate hook is entered only when the instance is not
\* active and the recorded sample rate is 0, and the assertions of
\* clapActivate never fail: no call of activate ends in a failed assertion.
C16_ActivateAssertsHold ==
  (last.op = "activate")
    => /\ proc # "aborted"
       /\ \A i \in DOMAIN last.hooks :
            (last.hooks[i].name = "activate")
              => ~last.hooks[i].isActive /\ last.hooks[i].sampleRate = 0

\* C17: whenever the author's deactivate hook is entered, by clapDeactivate
\* or by the simulated deactivation inside clapActivate, the processing flag
\* is false.
C17_DeactivateHookNotProcessing ==
  \A i \in DOMAIN last.hooks :
    (last.hooks[i].name = "deactivate") => ~last.hooks[i].isProcessing

\* C18: on every sequence of calls, init more than once included, the host's
\* lookup function is asked exactly once for each known extension id (never
\* twice, and once as soon as init has been called), no call of init ends in
\* the failed assertion of a second write, and with no lookup function every
\* capability stays absent.
C18_LookupExactlyOnce ==
  /\ \A id \in ExtIds : extQueries[id] <= 1
  /\ (InitEntered /\ host_.extension)
       => \A id \in ExtIds : extQueries[id] = 1
  /\ (last.op = "init") => proc # "aborted"
  /\ (~host_.extension) => \A id \in ExtIds : ~caps[id]

\* C19 as stated: the entry points guarded as audio-thread (process,
\* start_processing, stop_processing) only read the capability table and the
\* lifecycle state: a call of one of them leaves the capability table, the
\* active flag, the sample rate and the processing flag as they were.
C19_AudioOnlyReads ==
  [][(last'.op \in AudioOps)
       => /\ caps' = caps
          /\ isActive_' = isActive_
          /\ sampleRate_' = sampleRate_
          /\ isProcessing_' = isProcessing_]_vars

\* C19 amended: the capability table, the active flag and the sample rate
\* are written only by entry points guarded as main-thread, and the
\* audio-thread entry points leave them as they were; the processing flag is
\* written only by start_processing and stop_processing, which are guarded
\* as audio-thread, and by no other entry point.  Hence no lifecycle
\* variable is written by both classes, and with the host's thread check
\* present a call changes the active flag or the sample rate only on the
\* main thread and the processing flag only on the audio thread.
C19_WritersOfProcessing == {"start_processing", "stop_processing"}

C19_ThreadChecked ==
  /\ caps["clap/thread-check"]
  /\ host_.is_main_thread
  /\ host_.is_audio_thread

C19_DisjointWriters ==
  [][/\ (last'.op \in AudioOps)
          => /\ caps' = caps
             /\ extQueries' = extQueries
             /\ isActive_' = isActive_
             /\ sampleRate_' = sampleRate_
     /\ (last'.op \notin C19_WritersOfProcessing)
          => isProcessing_' = isProcessing_
     /\ (C19_ThreadChecked /\ isProcessing_' # isProcessing_)
          => last'.thr = "audio"
     /\ (C19_ThreadChecked
           /\ (isActive_' # isActive_ \/ sampleRate_' # sampleRate_))
          => last'.thr = "main"]_vars

C19_Witness ==
  /\ last.op = "start_processing"
  /\ last.thr = "audio"
  /\ C19_ThreadChecked
  /\ ~last.pre.isProcessing
  /\ isProcessing_

\* C20: a track-info changed notification that passes the thread guard:
\* when the host's track-info capability is not usable it reports one
\* diagnostic and leaves the snapshot, its validity flag and the author hook
\* untouched; when the fetch fails it clears the validity flag, reports one
\* diagnostic, leaves the snapshot as it was and enters no author hook; when
\* the fetch succeeds the snapshot is the fetched value, the validity flag
\* is true, and the author's trackInfoChanged hook is entered exactly once,
\* after the replacement, with no diagnostic.  (last.arg is the fetched
\* snapshot, 0 for a failed fetch.)
C20_Usable == caps["clap/track-info"] /\ host_.get

C20_TrackInfoChanged ==
  [][(last'.op = "track_info.changed" /\ last'.ret # "terminated")
       => /\ (~C20_Usable)
               => /\ last'.diag = 1
                  /\ trackInfo_' = trackInfo_
                  /\ hasTrackInfo_' = hasTrackInfo_
                  /\ last'.hooks = << >>
          /\ (C20_Usable /\ last'.arg = 0)
               => /\ ~hasTrackInfo_'
                  /\ last'.diag = 1
                  /\ trackInfo_' = trackInfo_
                  /\ last'.hooks = << >>
          /\ (C20_Usable /\ last'.arg > 0)
               => /\ trackInfo_' = last'.arg
                  /\ hasTrackInfo_'
                  /\ last'.diag = 0
                  /\ Len(last'.hooks) = 1
                  /\ last'.hooks[1].name = "trackInfoChanged"
                  /\ last'.hooks[1].trackInfo = last'.arg
                  /\ last'.hooks[1].hasTrackInfo]_vars

C20_Witness ==
  /\ last.op = "track_info.changed"
  /\ last.arg > 0
  /\ C20_Usable
  /\ hasTrackInfo_
  /\ trackInfo_ = last.arg
  /\ HookCount(last, "trackInfoChanged") = 1

\* C21: a call of clapExtension(id) that passes the thread guard: for the
\* render and track-info ids it returns the adapter's own table and asks the
\* author nothing; for the audio-ports (resp. params) id it asks
\* implementsAudioPorts() (resp. implementsParams()) and returns the
\* adapter's table iff the answer is true, otherwise it returns exactly what
\* the author's extension(id) returns; for every other id it returns exactly
\* what the author's extension(id) returns.
C21_Fallback(h, i) ==
  /\ Len(h.hooks) = i
  /\ h.hooks[i].name = "extension"
  /\ h.ret = h.hooks[i].res

C21_Conditional(h, predicate, table) ==
  /\ Len(h.hooks) >= 1
  /\ h.hooks[1].name = predicate
  /\ (h.ret = table) <=> (h.hooks[1].res = "true")
  /\ IF h.hooks[1].res = "true"
     THEN Len(h.hooks) = 1
     ELSE C21_Fallback(h, 2)

C21_ExtensionDispatch ==
  (last.op \in PluginExtIds /\ last.ret # "terminated")
    => /\ (last.op = "clap/render")
            => last.ret = "pluginRender_" /\ last.hooks = << >>
       /\ (last.op = "clap/track-info")
            => last.ret = "pluginTrackInfo_" /\ last.hooks = << >>
       /\ (last.op = "clap/audio-ports")
            => C21_Conditional(last, "implementsAudioPorts",
                               "pluginAudioPorts_")
       /\ (last.op = "clap/params")
            => C21_Conditional(last, "implementsParams", "pluginParams_")
       /\ (last.op \notin {"clap/render", "clap/track-info",
                           "clap/audio-ports", "clap/params"})
            => C21_Fallback(last, 1)

C21_Witness ==
  /\ last.op = "clap/audio-ports"
  /\ Len(last.hooks) = 2
  /\ last.hooks[1].name = "implementsAudioPorts"
  /\ last.hooks[1].res = "false"
  /\ last.hooks[2].name = "extension"
  /\ last.hooks[2].res = "author"
  /\ last.ret = "author"

====
